---------------------------- MODULE Spec2Model ----------------------------
(***************************************************************************)
(* mdtocgen: building a tree of Markdown documents from a directory walk   *)
(* (ListMDFiles, GetMDTitle) and rendering it as a table of contents       *)
(* (CreateTocTree).  Modelled from src/main.go, the revision with the      *)
(* -asc flag (lines 202-402).                                              *)
(*                                                                         *)
(* A Go string is modelled as a sequence of one-character strings, so that *)
(* strings.Replace, filepath.Dir, filepath.Ext, url.PathEscape, the        *)
(* heading pattern and the format strings are computed character by        *)
(* character as the code computes them.                                    *)
(***************************************************************************)
EXTENDS Integers, Sequences, FiniteSets, TLC

(***************************************************************************)
(* Bounds of the model.                                                    *)
(***************************************************************************)
\* the largest number of files in the scanned directory
MaxFiles == 3
\* the largest number of files when the visiting order is left open
MaxAnyFiles == 2
\* map iteration orders tried per rendering (a seed selects a permutation)
MaxSeed == 5
\* the largest number of lines of a document read by GetMDTitle in the
\* specification of the title extractor
MaxLines == 2

(***************************************************************************)
(* Strings as sequences of characters.                                     *)
(***************************************************************************)
Slash == "/"
Dot == <<".">>
DotSlash == <<".", "/">>
DotMd == <<".", "m", "d">>
Empty == <<>>
README == <<"R", "E", "A", "D", "M", "E", ".", "m", "d">>

\* byte values of the characters that occur in names (Go compares strings
\* byte by byte)
Ord(c) ==
    CASE c = " " -> 32
      [] c = "." -> 46
      [] c = "/" -> 47
      [] c = "A" -> 65
      [] c = "D" -> 68
      [] c = "E" -> 69
      [] c = "M" -> 77
      [] c = "R" -> 82
      [] c = "a" -> 97
      [] c = "b" -> 98
      [] c = "d" -> 100
      [] c = "e" -> 101
      [] c = "f" -> 102
      [] c = "g" -> 103
      [] c = "m" -> 109
      [] c = "n" -> 110
      [] c = "t" -> 116
      [] c = "u" -> 117
      [] c = "x" -> 120
      [] c = "y" -> 121
      [] c = "z" -> 122

\* s < t for Go strings: bytewise lexicographic, a proper prefix is smaller
RECURSIVE StrLess(_, _)
StrLess(s, t) ==
    IF t = <<>> THEN FALSE
    ELSE IF s = <<>> THEN TRUE
    ELSE IF Head(s) = Head(t) THEN StrLess(Tail(s), Tail(t))
    ELSE Ord(Head(s)) < Ord(Head(t))

\* the concatenation of a sequence of strings
RECURSIVE Concat(_)
Concat(ss) == IF ss = <<>> THEN <<>> ELSE Head(ss) \o Concat(Tail(ss))

\* strings.Repeat(s, n)
RECURSIVE Repeat(_, _)
Repeat(s, n) == IF n <= 0 THEN <<>> ELSE s \o Repeat(s, n - 1)

\* the index of the first occurrence of old in s, 0 when there is none
RECURSIVE IndexFrom(_, _, _)
IndexFrom(s, old, i) ==
    IF i + Len(old) - 1 > Len(s) THEN 0
    ELSE IF SubSeq(s, i, i + Len(old) - 1) = old THEN i
    ELSE IndexFrom(s, old, i + 1)

\* strings.Replace(s, old, new, 1): the first occurrence only, wherever it is
ReplaceFirst(s, old, new) ==
    LET i == IndexFrom(s, old, 1)
    IN  IF i = 0 THEN s
        ELSE SubSeq(s, 1, i - 1) \o new \o SubSeq(s, i + Len(old), Len(s))

\* strings.Split(s, "/")
RECURSIVE SplitFrom(_, _)
SplitFrom(s, cur) ==
    IF s = <<>> THEN <<cur>>
    ELSE IF Head(s) = Slash THEN <<cur>> \o SplitFrom(Tail(s), <<>>)
    ELSE SplitFrom(Tail(s), Append(cur, Head(s)))

Split(s) == SplitFrom(s, <<>>)

\* strings.Join(segs, "/")
RECURSIVE JoinSegs(_)
JoinSegs(segs) ==
    IF segs = <<>> THEN <<>>
    ELSE IF Len(segs) = 1 THEN Head(segs)
    ELSE Head(segs) \o <<Slash>> \o JoinSegs(Tail(segs))

RECURSIVE DropDots(_)
DropDots(segs) ==
    IF segs = <<>> THEN <<>>
    ELSE IF Head(segs) = <<>> \/ Head(segs) = Dot THEN DropDots(Tail(segs))
    ELSE <<Head(segs)>> \o DropDots(Tail(segs))

\* filepath.Clean for the relative paths without ".." that the walk builds:
\* empty and "." elements are dropped, and the empty result is "."
Clean(p) ==
    LET segs == DropDots(Split(p))
    IN  IF segs = <<>> THEN Dot ELSE JoinSegs(segs)

\* filepath.Join(a, b)
Join(a, b) == Clean(a \o <<Slash>> \o b)

\* the index of the last "/" of p, 0 when there is none
RECURSIVE LastSlash(_, _)
LastSlash(p, i) ==
    IF i = 0 THEN 0 ELSE IF p[i] = Slash THEN i ELSE LastSlash(p, i - 1)

\* filepath.Dir(p)
Dir(p) == Clean(SubSeq(p, 1, LastSlash(p, Len(p))))

RECURSIVE StripSlashes(_)
StripSlashes(p) ==
    IF p # <<>> /\ p[Len(p)] = Slash THEN StripSlashes(SubSeq(p, 1, Len(p) - 1))
    ELSE p

\* filepath.Base(p): trailing slashes are dropped first
Base(p) ==
    LET q == StripSlashes(p)
    IN  IF p = <<>> THEN Dot
        ELSE IF q = <<>> THEN <<Slash>>
        ELSE SubSeq(q, LastSlash(q, Len(q)) + 1, Len(q))

\* filepath.Ext(p): from the last "." of the last element, "" without one
RECURSIVE ExtFrom(_, _)
ExtFrom(p, i) ==
    IF i = 0 \/ p[i] = Slash THEN <<>>
    ELSE IF p[i] = "." THEN SubSeq(p, i, Len(p))
    ELSE ExtFrom(p, i - 1)

Ext(p) == ExtFrom(p, Len(p))

\* net/url shouldEscape(c, encodePathSegment) on the characters of the model
shouldEscape(c) == c \in {"/", " ", "%", "#", "[", "]", "(", ")"}

\* the two upper-case hexadecimal digits of the character's byte
HexOf(c) ==
    CASE c = "/" -> <<"2", "F">>
      [] c = " " -> <<"2", "0">>
      [] c = "%" -> <<"2", "5">>
      [] c = "#" -> <<"2", "3">>
      [] c = "[" -> <<"5", "B">>
      [] c = "]" -> <<"5", "D">>
      [] c = "(" -> <<"2", "8">>
      [] c = ")" -> <<"2", "9">>

\* url.PathEscape(s)
RECURSIVE PathEscape(_)
PathEscape(s) ==
    IF s = <<>> THEN <<>>
    ELSE (IF shouldEscape(Head(s)) THEN <<"%">> \o HexOf(Head(s))
          ELSE <<Head(s)>>) \o PathEscape(Tail(s))


(***************************************************************************)
(* GetMDTitle.  A document is what os.Open and the scanner give: whether   *)
(* it can be opened, and its lines.                                        *)
(***************************************************************************)
\* \s of Go's regexp on the characters of the model
IsSpace(c) == c \in {" ", "\t"}

RECURSIVE TrimLeftSpace(_)
TrimLeftSpace(s) ==
    IF s # <<>> /\ IsSpace(Head(s)) THEN TrimLeftSpace(Tail(s)) ELSE s

\* the pattern without its \s+
h1MatchNoSpace(line) == Len(line) >= 2 /\ line[1] = "#"

\* h1Regex.MatchString(line) for ^#\s+(.*)$
h1Match(line) == Len(line) >= 2 /\ line[1] = "#" /\ IsSpace(line[2])

\* h1Regex.FindStringSubmatch(line)[1]: \s+ is greedy, the group is the rest
h1Group(line) == TrimLeftSpace(Tail(line))

\* the loop over scanner.Scan()
RECURSIVE ScanLines(_)
ScanLines(lines) ==
    IF lines = <<>> THEN Empty
    ELSE IF h1Match(Head(lines)) THEN h1Group(Head(lines))
    ELSE ScanLines(Tail(lines))

GetMDTitle(doc) == IF ~doc.readable THEN Empty ELSE ScanLines(doc.lines)

(***************************************************************************)
(* MDFileInfo.  Children is a Go map: nil for a document (the field is not *)
(* set), made for a directory.  A struct copied out of a map shares its    *)
(* Children map, so a node is addressed by the keys leading to it.         *)
(***************************************************************************)
NilMap == [isNil |-> TRUE, kv |-> <<>>]
MakeMap == [isNil |-> FALSE, kv |-> <<>>]

Keys(md) == DOMAIN md.Children.kv

RootInfo ==
    [IsDir |-> TRUE, Children |-> MakeMap, Level |-> 0, Title |-> Empty,
     Path |-> Dot]

\* the directory node made in the loop over dirs
DirInfo(p, d) ==
    [IsDir |-> TRUE, Children |-> MakeMap, Level |-> p.Level + 1, Title |-> d,
     Path |-> PathEscape(Join(p.Path, d))]

\* the document node with its parent's Level
DocInfoSameLevel(p, relPath, content) ==
    [IsDir |-> FALSE, Children |-> NilMap, Level |-> p.Level,
     Title |-> GetMDTitle(content), Path |-> PathEscape(relPath)]

\* the document node
DocInfo(p, relPath, content) ==
    [IsDir |-> FALSE, Children |-> NilMap, Level |-> p.Level + 1,
     Title |-> GetMDTitle(content), Path |-> PathEscape(relPath)]

\* the node reached from md along the keys of pos
RECURSIVE NodeAt(_, _)
NodeAt(md, pos) ==
    IF pos = <<>> THEN md ELSE NodeAt(md.Children.kv[Head(pos)], Tail(pos))

\* p.Children[key] = child, for the node p at pos: the map is shared, so the
\* assignment shows in the tree; an earlier entry under key is replaced
RECURSIVE SetChild(_, _, _, _)
SetChild(md, pos, key, child) ==
    IF pos = <<>>
    THEN [md EXCEPT !.Children.kv = (key :> child) @@ @]
    ELSE [md EXCEPT !.Children.kv[Head(pos)] =
                        SetChild(@, Tail(pos), key, child)]

\* the loop "for _, d := range dirs": p moves down from the root, making the
\* directories that are missing; an assignment into a nil map panics
RECURSIVE Descend(_, _, _)
Descend(tree, pos, dirs) ==
    IF dirs = <<>> THEN [root |-> tree, pos |-> pos, panicked |-> FALSE]
    ELSE LET d == Head(dirs)
             p == NodeAt(tree, pos)
         IN  IF d = Dot THEN Descend(tree, pos, Tail(dirs))
             ELSE IF d \in Keys(p)
             THEN Descend(tree, Append(pos, d), Tail(dirs))
             ELSE IF p.Children.isNil
             THEN [root |-> tree, pos |-> pos, panicked |-> TRUE]
             ELSE Descend(SetChild(tree, pos, d, DirInfo(p, d)),
                          Append(pos, d), Tail(dirs))

NoErr == "nil"
WalkErr == "walk error"

\* the insertion of one Markdown file: lines 293-316
InsertFile(tree, dirPath, path, name, content) ==
    LET relPath == ReplaceFirst(path, dirPath, Dot)
        dirs == Split(Dir(relPath))
        at == Descend(tree, <<>>, dirs)
        p == NodeAt(at.root, at.pos)
    IN  IF at.panicked \/ p.Children.isNil
        THEN [root |-> at.root, err |-> NoErr, panicked |-> TRUE]
        ELSE [root |-> SetChild(at.root, at.pos, name,
                                DocInfo(p, relPath, content)),
              err |-> NoErr, panicked |-> FALSE]

\* the eligibility test of line 292
IsMarkdown(path, info) ==
    ~info.IsDir /\ info.Name # README /\ Ext(path) = DotMd

\* the function given to filepath.Walk: lines 287-318
WalkFunc(tree, dirPath, path, info, content, e) ==
    IF e # NoErr THEN [root |-> tree, err |-> e, panicked |-> FALSE]
    ELSE IF IsMarkdown(path, info)
    THEN InsertFile(tree, dirPath, path, info.Name, content)
    ELSE [root |-> tree, err |-> NoErr, panicked |-> FALSE]


(***************************************************************************)
(* CreateTocTree.                                                          *)
(***************************************************************************)
Indent == <<" ", " ">>
NL == <<"\n">>

\* the node's own lines with the list items indented by Level - 1
FragmentIndentedByLevel(md, indent) ==
    IF md.Level = 0 THEN <<"#", " ">> \o md.Title \o NL
    ELSE IF md.Level = 1
    THEN IF md.IsDir
         THEN NL \o <<"#", "#", " ">> \o md.Title \o NL \o NL
         ELSE NL \o <<"#", "#", " ", "[">> \o md.Title \o <<"]", "(">>
                 \o md.Path \o <<")">> \o NL \o NL
    ELSE IF md.IsDir
         THEN Repeat(indent, md.Level - 1) \o <<"-", " ">> \o md.Title \o NL
         ELSE Repeat(indent, md.Level - 1) \o <<"-", " ", "[">> \o md.Title
                 \o <<"]", "(">> \o md.Path \o <<")">> \o NL

\* the switch on md.Level: the node's own lines
Fragment(md, indent) ==
    IF md.Level = 0 THEN <<"#", " ">> \o md.Title \o NL
    ELSE IF md.Level = 1
    THEN IF md.IsDir
         THEN NL \o <<"#", "#", " ">> \o md.Title \o NL \o NL
         ELSE NL \o <<"#", "#", " ", "[">> \o md.Title \o <<"]", "(">>
                 \o md.Path \o <<")">> \o NL \o NL
    ELSE IF md.IsDir
         THEN Repeat(indent, md.Level - 2) \o <<"-", " ">> \o md.Title \o NL
         ELSE Repeat(indent, md.Level - 2) \o <<"-", " ", "[">> \o md.Title
                 \o <<"]", "(">> \o md.Path \o <<")">> \o NL

\* the least string of a set
MinStr(S) == CHOOSE x \in S : \A y \in S \ {x} : StrLess(x, y)

RECURSIVE Enumerate(_)
Enumerate(S) ==
    IF S = {} THEN <<>> ELSE <<MinStr(S)>> \o Enumerate(S \ {MinStr(S)})

RECURSIVE Shuffle(_, _)
Shuffle(seq, seed) ==
    IF seq = <<>> THEN <<>>
    ELSE LET i == (seed % Len(seq)) + 1
         IN  <<seq[i]>> \o Shuffle(SubSeq(seq, 1, i - 1)
                                     \o SubSeq(seq, i + 1, Len(seq)),
                                   seed \div Len(seq))

\* reflect.ValueOf(md.Children).MapKeys(): the keys in an order the runtime
\* chooses; the seed stands for the choice
MapKeys(md, seed) == Shuffle(Enumerate(Keys(md)), seed)

\* the insertion that ignores the flag and always ascends
RECURSIVE InsertSortedAscending(_, _, _)
InsertSortedAscending(x, sorted, asc) ==
    IF sorted = <<>> THEN <<x>>
    ELSE IF StrLess(x, Head(sorted)) THEN <<x>> \o sorted
    ELSE <<Head(sorted)>> \o InsertSortedAscending(x, Tail(sorted), asc)

\* x put at its place in a sequence sorted in the order asked for
RECURSIVE InsertSorted(_, _, _)
InsertSorted(x, sorted, asc) ==
    IF sorted = <<>> THEN <<x>>
    ELSE IF (asc /\ StrLess(x, Head(sorted)))
            \/ (~asc /\ StrLess(Head(sorted), x))
    THEN <<x>> \o sorted
    ELSE <<Head(sorted)>> \o InsertSorted(x, Tail(sorted), asc)

\* the keys left in the order of the map, as in the revision without -asc
SortStringsSkipped(stringKeys, asc) == stringKeys

\* sort.Strings(stringKeys) when asc, and
\* sort.Sort(sort.Reverse(sort.StringSlice(stringKeys))) otherwise
RECURSIVE SortStrings(_, _)
SortStrings(stringKeys, asc) ==
    IF stringKeys = <<>> THEN <<>>
    ELSE InsertSorted(Head(stringKeys), SortStrings(Tail(stringKeys), asc), asc)

\* lines 387-396: the keys of the children in the order they are rendered
SortedKeys(md, asc, seed) == SortStrings(MapKeys(md, seed), asc)

RECURSIVE CreateTocTree(_, _, _, _)
RECURSIVE TocOfChildren(_, _, _, _, _)
TocOfChildren(md, keys, indent, sortAsc, seed) ==
    IF keys = <<>> THEN <<>>
    ELSE CreateTocTree(md.Children.kv[Head(keys)], indent, sortAsc, seed)
           \o TocOfChildren(md, Tail(keys), indent, sortAsc, seed)

CreateTocTree(md, indent, sortAsc, seed) ==
    Fragment(md, indent)
      \o TocOfChildren(md, SortedKeys(md, sortAsc, seed), indent, sortAsc, seed)


(***************************************************************************)
(* The directory that is scanned.  A file is the names leading to it from  *)
(* the scanned directory and what reading it gives.                        *)
(***************************************************************************)
Readable(lines) == [readable |-> TRUE, lines |-> lines]
Unreadable == [readable |-> FALSE, lines |-> <<>>]

NameD == <<"d">>
NameE == <<"e">>
NameADot == <<"a", ".">>
NameZDot == <<"z", ".">>
NameAMd == <<"a", ".", "m", "d">>
NameBMd == <<"b", ".", "m", "d">>
NameFGMd == <<"f", " ", "g", ".", "m", "d">>
NameUMd == <<"u", ".", "m", "d">>
NameXMd == <<"x", ".", "m", "d">>
NameYMd == <<"y", ".", "m", "d">>
NameNTxt == <<"n", ".", "t", "x", "t">>

LineH1(t) == <<"#", " ">> \o t
LineH2(t) == <<"#", "#", " ">> \o t

Universe ==
    { [segs |-> <<NameBMd>>,
       doc |-> Readable(<<LineH2(<<"N">>), LineH1(<<"A">>)>>)],
      [segs |-> <<NameD, NameAMd>>, doc |-> Readable(<<LineH1(<<"B">>)>>)],
      [segs |-> <<NameD, NameBMd>>,
       doc |-> Readable(<<LineH1(<<"A">>), LineH1(<<"B">>)>>)],
      [segs |-> <<NameD, NameE, NameFGMd>>, doc |-> Readable(<<<<"t">>>>)],
      [segs |-> <<NameD, README>>, doc |-> Readable(<<LineH1(<<"R">>)>>)],
      [segs |-> <<NameD, NameUMd>>, doc |-> Unreadable],
      [segs |-> <<NameNTxt>>, doc |-> Readable(<<LineH1(<<"N">>)>>)],
      [segs |-> <<NameXMd>>, doc |-> Readable(<<LineH1(<<"T">>)>>)],
      [segs |-> <<NameADot, NameXMd>>, doc |-> Readable(<<LineH1(<<"B">>)>>)],
      [segs |-> <<NameXMd, NameYMd>>, doc |-> Readable(<<LineH1(<<"Y">>)>>)],
      [segs |-> <<NameZDot, NameXMd>>, doc |-> Readable(<<LineH1(<<"Z">>)>>)] }

IsPrefix(s, t) == Len(s) <= Len(t) /\ SubSeq(t, 1, Len(s)) = s

\* a name is a file or a directory, not both, and names one file only
Consistent(S) ==
    \A f, g \in S : f # g => ~IsPrefix(f.segs, g.segs)

FileSystems(n) ==
    { S \in SUBSET Universe : Cardinality(S) <= n /\ Consistent(S) }

\* the values of -dir
DirPaths == { Dot, DotSlash, <<"z">> }

\* the values of -t
Titles == { Empty, <<"T">> }

\* os.Getwd()
Cwd == <<"/", "w">>

\* the directories of a set of files: the scanned one and those on the way
DirsOf(S) ==
    UNION { { SubSeq(f.segs, 1, n) : n \in 0..(Len(f.segs) - 1) } : f \in S }
      \cup { <<>> }

\* the entries filepath.Walk reports: every directory and every file
Entries(S) ==
    { [segs |-> d, IsDir |-> TRUE, doc |-> Unreadable] : d \in DirsOf(S) }
      \cup { [segs |-> f.segs, IsDir |-> FALSE, doc |-> f.doc] : f \in S }

\* the order of the walk: a directory before what it holds, the names of a
\* directory in the order of sort.Strings
RECURSIVE SegsLess(_, _)
SegsLess(s, t) ==
    IF t = <<>> THEN FALSE
    ELSE IF s = <<>> THEN TRUE
    ELSE IF Head(s) = Head(t) THEN SegsLess(Tail(s), Tail(t))
    ELSE StrLess(Head(s), Head(t))

RECURSIVE WalkOrder(_)
WalkOrder(E) ==
    IF E = {} THEN <<>>
    ELSE LET first == CHOOSE x \in E :
                          \A y \in E \ {x} : SegsLess(x.segs, y.segs)
         IN  <<first>> \o WalkOrder(E \ {first})

\* the path filepath.Walk gives for an entry: the root as it was given, and
\* filepath.Join(path, name) below it
RECURSIVE EntryPath(_, _)
EntryPath(dir, segs) ==
    IF segs = <<>> THEN dir
    ELSE Join(EntryPath(dir, SubSeq(segs, 1, Len(segs) - 1)), segs[Len(segs)])

\* os.FileInfo of an entry
InfoOf(dir, entry) ==
    [Name |-> Base(EntryPath(dir, entry.segs)), IsDir |-> entry.IsDir]

(***************************************************************************)
(* The state.                                                              *)
(***************************************************************************)
VARIABLES
    dirPath,   \* the -dir flag
    fs,        \* the files under the scanned directory
    todo,      \* the entries the walk has not reported yet
    root,      \* ListMDFiles' root
    walkErr,   \* the error the walk function returned
    pc,        \* where the program is
    files,     \* main's files
    err,       \* main's err
    toc,       \* main's toc
    sortAsc,   \* the -asc flag
    doc,       \* the document GetMDTitle reads
    h1         \* what GetMDTitle returned

vars ==
    <<dirPath, fs, todo, root, walkErr, pc, files, err, toc, sortAsc, doc, h1>>

NoDoc == Unreadable

InitWith(n) ==
    /\ dirPath \in DirPaths
    /\ fs \in FileSystems(n)
    /\ todo = WalkOrder(Entries(fs))
    /\ root = RootInfo
    /\ walkErr = NoErr
    /\ pc = "walk"
    /\ files = RootInfo
    /\ err = NoErr
    /\ toc = Empty
    /\ sortAsc = TRUE
    /\ doc = NoDoc
    /\ h1 = Empty

Init == InitWith(MaxFiles)

\* the walk reports its i-th remaining entry to the walk function, with the
\* error of reading it, if any
Report(i) ==
    /\ pc = "walk"
    /\ walkErr = NoErr
    /\ i \in 1..Len(todo)
    /\ \E e \in {NoErr, WalkErr} :
         LET entry == todo[i]
             r == WalkFunc(root, dirPath, EntryPath(dirPath, entry.segs),
                           InfoOf(dirPath, entry), entry.doc, e)
         IN  /\ root' = r.root
             /\ walkErr' = r.err
             /\ pc' = IF r.panicked THEN "panic" ELSE "walk"
             /\ todo' = SubSeq(todo, 1, i - 1) \o SubSeq(todo, i + 1, Len(todo))
    /\ UNCHANGED <<dirPath, fs, files, err, toc, sortAsc, doc, h1>>

\* filepath.Walk: the entries in lexical order
Visit == Report(1)

\* the entries in any order
VisitAny == \E i \in 1..Len(todo) : Report(i)

\* lines 320-323 and 239: the walk is over, ListMDFiles returns root and err
ListMDFilesReturn ==
    /\ pc = "walk"
    /\ todo = <<>> \/ walkErr # NoErr
    /\ files' = root
    /\ err' = walkErr
    /\ pc' = "listed"
    /\ UNCHANGED <<dirPath, fs, todo, root, walkErr, toc, sortAsc, doc, h1>>

\* main going on to the title without looking at err
MainTitleIgnoringErr ==
    /\ pc = "listed"
    /\ \E title \in Titles :
         /\ pc' = "titled"
         /\ files' = [files EXCEPT !.Title = title]
    /\ UNCHANGED <<dirPath, fs, todo, root, walkErr, err, toc, sortAsc, doc, h1>>

\* lines 240-251: log.Fatal on an error, the title of the root otherwise
MainTitle ==
    /\ pc = "listed"
    /\ \E title \in Titles :
         IF err # NoErr
         THEN /\ pc' = "fatal"
              /\ files' = files
         ELSE /\ pc' = "titled"
              /\ files' =
                   [files EXCEPT !.Title =
                      IF title = Empty
                      THEN Base(IF dirPath = Dot THEN Cwd ELSE dirPath)
                      ELSE title]
    /\ UNCHANGED <<dirPath, fs, todo, root, walkErr, err, toc, sortAsc, doc, h1>>

\* line 253: the rendering; the runtime chooses the order of the map keys
Render ==
    /\ pc = "titled"
    /\ \E asc \in BOOLEAN, seed \in 0..MaxSeed :
         /\ sortAsc' = asc
         /\ toc' = CreateTocTree(files, Indent, asc, seed)
    /\ pc' = "rendered"
    /\ UNCHANGED <<dirPath, fs, todo, root, walkErr, files, err, doc, h1>>

Next == Visit \/ ListMDFilesReturn \/ MainTitle \/ Render

Spec == Init /\ [][Next]_vars

\* the same program under a walk that may report the entries in any order
InitAny == InitWith(MaxAnyFiles)

NextAny == VisitAny \/ ListMDFilesReturn \/ MainTitle \/ Render

SpecAnyOrder == InitAny /\ [][NextAny]_vars


(***************************************************************************)
(* GetMDTitle on its own: a document of a few lines is read once.          *)
(***************************************************************************)
Lines ==
    { <<"#", " ", "T">>,            \* a level-1 heading
      <<"#", " ", "U">>,            \* another one
      <<"#", "#", " ", "N">>,       \* a level-2 heading
      <<" ", "#", " ", "X">>,       \* white space before the #
      <<"#", "Y">>,                 \* no white space after the #
      <<"#", " ">>,                 \* a heading with no text
      <<"#", " ", "\t", "T", " ">>, \* more white space, and some at the end
      <<"#", " ", "#", " ", "T">>,  \* a # in the text
      <<"t">>,
      <<>> }

Docs ==
    { Unreadable }
      \cup { Readable(l) : l \in UNION { [1..n -> Lines] : n \in 0..MaxLines } }

InitTitle ==
    /\ dirPath = Dot
    /\ fs = {}
    /\ todo = <<>>
    /\ root = RootInfo
    /\ walkErr = NoErr
    /\ pc = "open"
    /\ files = RootInfo
    /\ err = NoErr
    /\ toc = Empty
    /\ sortAsc = TRUE
    /\ doc \in Docs
    /\ h1 = Empty

\* one call of GetMDTitle
ReadTitle ==
    /\ pc = "open"
    /\ h1' = GetMDTitle(doc)
    /\ pc' = "closed"
    /\ UNCHANGED <<dirPath, fs, todo, root, walkErr, files, err, toc, sortAsc, doc>>

NextTitle == ReadTitle

SpecTitle == InitTitle /\ [][NextTitle]_vars


(***************************************************************************)
(* What the claims speak of.                                               *)
(***************************************************************************)
\* the key paths of the nodes of a tree, the root's being <<>>
RECURSIVE Positions(_)
Positions(md) ==
    { <<>> } \cup
    UNION { { <<k>> \o q : q \in Positions(md.Children.kv[k]) } : k \in Keys(md) }

DocPositions(md) == { q \in Positions(md) : ~NodeAt(md, q).IsDir }

\* a file the builder is to take: not README.md, and a name ending in .md
EndsWithMd(name) ==
    Len(name) >= 3 /\ SubSeq(name, Len(name) - 2, Len(name)) = DotMd

Eligible(f) ==
    LET name == f.segs[Len(f.segs)] IN name # README /\ EndsWithMd(name)

\* the keys of a node as the one sequence that ascends (descends) strictly
OrderedKeys(md, asc) ==
    LET n == Cardinality(Keys(md))
    IN  CHOOSE seq \in [1..n -> Keys(md)] :
            \A i, j \in 1..n :
                i < j => IF asc THEN StrLess(seq[i], seq[j])
                         ELSE StrLess(seq[j], seq[i])

\* C1: every document node's link target begins with "./" and is the path
\* of the node from the root, each name percent-escaped and the names
\* joined by literal "/".
C1_LinkTargetKeepsSlashes ==
    \A q \in DocPositions(root) :
        NodeAt(root, q).Path =
            DotSlash \o JoinSegs([i \in 1..Len(q) |-> PathEscape(q[i])])

\* C2: when ListMDFiles has returned without an error, the tree holds as
\* many document nodes as the directory holds files that end in .md and are
\* not named README.md.
C2_OneNodePerMarkdownFile ==
    (pc = "listed" /\ err = NoErr) =>
        Cardinality(DocPositions(files))
            = Cardinality({ f \in fs : Eligible(f) })

\* the rendering the claim C3 describes: the node's own lines, then the
\* children by ascending (descending) key
RECURSIVE TocByKey(_, _)
TocByKey(md, asc) ==
    LET keys == OrderedKeys(md, asc)
    IN  Fragment(md, Indent)
          \o Concat([i \in 1..Len(keys) |->
                       TocByKey(md.Children.kv[keys[i]], asc)])

\* C3: the output is, for every node, the node's own lines followed by its
\* children in ascending order of their keys when -asc is set and in
\* descending order of their keys when it is not, whatever their titles.
C3_ChildrenByKey == pc = "rendered" => toc = TocByKey(files, sortAsc)

\* two documents of one directory whose titles are in the other order than
\* their keys, rendered descending
C3_Witness ==
    /\ pc = "rendered"
    /\ ~sortAsc
    /\ \E q \in Positions(files) :
         \E j, k \in Keys(NodeAt(files, q)) :
             /\ StrLess(j, k)
             /\ ~NodeAt(files, Append(q, j)).IsDir
             /\ ~NodeAt(files, Append(q, k)).IsDir
             /\ NodeAt(files, Append(q, j)).Title = <<"B">>
             /\ NodeAt(files, Append(q, k)).Title = <<"A">>

\* C4: whatever order the runtime gives the keys of the maps in, rendering
\* the tree again with the same flag gives the output that was rendered.
C4_SameOutputForEveryMapOrder ==
    pc = "rendered" =>
        \A seed \in 0..MaxSeed :
            CreateTocTree(files, Indent, sortAsc, seed) = toc

\* a rendered tree with a node of three children
C4_Witness ==
    /\ pc = "rendered"
    /\ \E q \in Positions(files) : Cardinality(Keys(NodeAt(files, q))) >= 3

\* C5 as the spec has it: a walk that failed returns no partial tree.
C5_NoPartialTreeOnError ==
    (pc \in {"listed", "fatal"} /\ err # NoErr) => Keys(files) = {}

\* C5 as the code has it: a walk that failed makes ListMDFiles return the
\* walk's error, main stops at it and renders nothing, and the value
\* returned with the error is the root with every node inserted before the error.
C5_FailsWithTheTreeSoFar ==
    (walkErr # NoErr /\ pc # "walk") =>
        /\ err = WalkErr
        /\ pc \in {"listed", "fatal"}
        /\ toc = Empty
        /\ files = root

\* an error in the middle of the walk, after nodes were inserted
C5_Witness ==
    /\ pc = "fatal"
    /\ err = WalkErr
    /\ todo # <<>>
    /\ DocPositions(files) # {}

\* the lines the claim C6 gives for a node
ExpectedFragment(depth, isDir, title, linkTarget) ==
    LET link == <<"[">> \o title \o <<"]", "(">> \o linkTarget \o <<")">>
        text == IF isDir THEN title ELSE link
    IN  IF depth = 0 THEN <<"#", " ">> \o title \o <<"\n">>
        ELSE IF depth = 1
        THEN <<"\n", "#", "#", " ">> \o text \o <<"\n", "\n">>
        ELSE Repeat(Indent, depth - 2) \o <<"-", " ">> \o text \o <<"\n">>

\* the nodes of a tree in pre-order, as key paths from the root
RECURSIVE PreOrder(_, _, _)
PreOrder(tree, q, asc) ==
    LET keys == SortedKeys(NodeAt(tree, q), asc, 0)
    IN  <<q>> \o Concat([i \in 1..Len(keys) |->
                           PreOrder(tree, Append(q, keys[i]), asc)])

\* C6: the output is the concatenation, in pre-order, of one fragment per
\* node, the fragment being fixed by the node's depth, kind, title and
\* link target.
C6_OneFragmentPerNode ==
    pc = "rendered" =>
        LET nodes == PreOrder(files, <<>>, sortAsc)
        IN  toc = Concat([i \in 1..Len(nodes) |->
                    LET md == NodeAt(files, nodes[i])
                    IN  ExpectedFragment(Len(nodes[i]), md.IsDir, md.Title,
                                         md.Path)])

\* a rendered tree with a document at depth 1, a directory at depth 2 and a
\* document without a title at depth 3
C6_Witness ==
    /\ pc = "rendered"
    /\ \E q \in DocPositions(files) : Len(q) = 1
    /\ \E q \in Positions(files) : Len(q) = 2 /\ NodeAt(files, q).IsDir
    /\ \E q \in DocPositions(files) :
         Len(q) = 3 /\ NodeAt(files, q).Title = Empty

\* a level-1 heading as the claim C7 has it: one #, then white space
IsH1Line(line) ==
    /\ Len(line) >= 2
    /\ line[1] = "#"
    /\ line[2] \in {" ", "\t"}

\* the text of a level-1 heading: what follows the # and the white space
\* after it
H1Text(line) ==
    LET k == CHOOSE n \in 2..Len(line) :
                 /\ \A i \in 2..n : line[i] \in {" ", "\t"}
                 /\ n = Len(line) \/ line[n + 1] \notin {" ", "\t"}
    IN  SubSeq(line, k + 1, Len(line))

\* C7: GetMDTitle gives the text of the first level-1 heading line of the
\* document, and the empty string when there is none or the document cannot
\* be read.
C7_FirstH1OrEmpty ==
    pc = "closed" =>
        IF doc.readable /\ \E i \in 1..Len(doc.lines) : IsH1Line(doc.lines[i])
        THEN LET first == CHOOSE i \in 1..Len(doc.lines) :
                              /\ IsH1Line(doc.lines[i])
                              /\ \A j \in 1..(i - 1) : ~IsH1Line(doc.lines[j])
             IN  h1 = H1Text(doc.lines[first])
        ELSE h1 = Empty

\* "## N" then "# T": the second line is the first level-1 heading
C7_Witness ==
    /\ pc = "closed"
    /\ doc = Readable(<<LineH2(<<"N">>), LineH1(<<"T">>)>>)
    /\ h1 = <<"T">>

\* C8: the root is a directory of depth 0 and every other node's Level is
\* its parent's plus one, while the walk inserts and after it.
C8_LevelIsParentsPlusOne ==
    /\ root.IsDir
    /\ root.Level = 0
    /\ \A q \in Positions(root) \ { <<>> } :
         NodeAt(root, q).Level
             = NodeAt(root, SubSeq(q, 1, Len(q) - 1)).Level + 1

\* the walk is not over and the tree holds a directory at depth 2 and a
\* document at depth 3
C8_Witness ==
    /\ pc = "walk"
    /\ todo # <<>>
    /\ \E q \in Positions(root) : Len(q) = 2 /\ NodeAt(root, q).IsDir
    /\ \E q \in DocPositions(root) : Len(q) = 3

\* the tree of a walk in lexical order that no error stops
RECURSIVE TreeOf(_, _, _)
TreeOf(tree, dir, entries) ==
    IF entries = <<>> THEN tree
    ELSE LET entry == Head(entries)
             r == WalkFunc(tree, dir, EntryPath(dir, entry.segs),
                           InfoOf(dir, entry), entry.doc, NoErr)
         IN  IF r.panicked THEN r.root ELSE TreeOf(r.root, dir, Tail(entries))

\* C9: whatever the order the entries were reported in, the tree ListMDFiles
\* returns is the tree of the walk in lexical order.
C9_TreeIndependentOfOrder ==
    (pc = "listed" /\ err = NoErr) =>
        files = TreeOf(RootInfo, dirPath, WalkOrder(Entries(fs)))

\* C10: the insertion of a Markdown file never crashes, and after it the
\* file's document node is in the tree under the file's name, below
\* directory nodes for the directories of its relative path: where a
\* directory and a document meet under one key, the later one is there.
C10_LaterEntryReplacesEarlier ==
    [][ LET entry == todo[1]
            path == EntryPath(dirPath, entry.segs)
            relPath == ReplaceFirst(path, dirPath, Dot)
            q == DropDots(Split(Dir(relPath)))
        IN  (/\ pc = "walk"
             /\ todo # <<>>
             /\ todo' = Tail(todo)
             /\ walkErr' = NoErr
             /\ IsMarkdown(path, InfoOf(dirPath, entry)))
            => /\ pc' # "panic"
               /\ Append(q, Base(path)) \in DocPositions(root')
               /\ \A n \in 0..Len(q) : NodeAt(root', SubSeq(q, 1, n)).IsDir
      ]_vars

=============================================================================
